---- MODULE Spec2Model ----
(***************************************************************************)
(* MeshSync scene graph (Plugin~/MeshSync/SceneGraph/msSceneGraph.cpp).    *)
(*                                                                         *)
(* A Scene is settings + assets + entities + constraints.  Entities are    *)
(* held through shared pointers, so the model keeps a heap of entity       *)
(* objects and every scene's entity collection is a sequence of addresses  *)
(* (Null for an empty pointer).  Two specifications share the state:       *)
(*   Spec    the tree-wide transforms clone / strip / merge / diff / lerp  *)
(*   SpecIO  serialize / deserialize / create over a stream in flight      *)
(***************************************************************************)
EXTENDS Integers, Sequences, FiniteSets, TLC

VARIABLES heap, ents, settings, assets, constraints, wire, last, run

vars == <<heap, ents, settings, assets, constraints, wire, last, run>>

(***************************************************************************)
(* Bounds of the model.                                                    *)
(***************************************************************************)
\* longest entity collection of an initial scene
MaxLen == 2
\* calls made in one run
MaxOps == 2
\* longest entity collection of a scene whose entities carry paths
MaxNodes == 3

\* lerp fractions t are written 0..TDen over the denominator TDen
TDen == 2
Fractions == 0..TDen

\* Scene objects the caller holds: two snapshots and a third scene.  The
\* snapshots are what a call names as base, s1 or s2; any scene receives.
Snapshots == {1, 2}
Scenes == Snapshots \cup {3}
NScenes == Cardinality(Scenes)
SourcePairs == {p \in Snapshots \X Snapshots : p[1] # p[2]}

Null == 0
MaxObj == (NScenes + 1) * (IF MaxLen > MaxNodes THEN MaxLen ELSE MaxNodes)
Addrs == 1..MaxObj

\* a heap cell that holds no object
NoEnt == [id |-> 0, kind |-> "none", ct |-> FALSE, val |-> 0, parent |-> 0]

(***************************************************************************)
(* 64-bit unsigned arithmetic, kept at full width as four 16-bit limbs     *)
(* (least significant first).                                              *)
(***************************************************************************)
WordBits == 64
NLimbs == WordBits \div 16
LimbBase == 2 ^ 16

U64Zero == [k \in 1..NLimbs |-> 0]
U64Max == [k \in 1..NLimbs |-> LimbBase - 1]
U64One == [k \in 1..NLimbs |-> IF k = 1 THEN 1 ELSE 0]
U64Top == [k \in 1..NLimbs |-> IF k = NLimbs THEN LimbBase \div 2 ELSE 0]

\* carry into limb k+1 of x + y
RECURSIVE Carry(_, _, _)
Carry(x, y, k) ==
    IF k = 0 THEN 0 ELSE (x[k] + y[k] + Carry(x, y, k - 1)) \div LimbBase

\* x + y without the wrap: TRUE iff the true sum exceeds 2^64 - 1
Overflows(x, y) == Carry(x, y, NLimbs) = 1

\* saturating addition (not what the code does; used to state claims)
AddSat64(x, y) ==
    IF Overflows(x, y) THEN U64Max
    ELSE [k \in 1..NLimbs |-> (x[k] + y[k] + Carry(x, y, k - 1)) % LimbBase]

\* uint64_t += : addition modulo 2^64
Add64(x, y) ==
    [k \in 1..NLimbs |-> (x[k] + y[k] + Carry(x, y, k - 1)) % LimbBase]

(***************************************************************************)
(* Entities.  The core only uses each entity's capability surface; the     *)
(* entity kinds themselves live outside this file.  An entity carries its  *)
(* identity, its kind, the constant_topology cache flag, one data field    *)
(* val (0 is the blank / default value) and its parent back-reference.     *)
(***************************************************************************)
Kinds == {"Transform", "Mesh"}
Ent(i, k, c, v) == [id |-> i, kind |-> k, ct |-> c, val |-> v, parent |-> Null]

\* Transform::isGeometry
IsGeometry(e) == e.kind = "Mesh"

\* Entity::clone(detach): a new object with the same fields; a detached
\* clone drops the parent linkage
EntityClone(e, detach) == IF detach THEN [e EXCEPT !.parent = Null] ELSE e

\* Entity::strip: blank the data that equals the base's
EntityStrip(e, base) == IF e.val = base.val THEN [e EXCEPT !.val = 0] ELSE e

\* Entity::merge: take the base's data where this entity's is blank
EntityMerge(e, base) == IF e.val = 0 THEN [e EXCEPT !.val = base.val] ELSE e

\* Entity::diff: keep e1's data where it differs from e2's, blank elsewhere
EntityDiff(e3, e1, e2) ==
    [e3 EXCEPT !.val = IF e1.val = e2.val THEN 0 ELSE e1.val]

\* Entity::lerp: interpolate the data between e1 and e2 at fraction t / TDen
EntityLerp(e3, e1, e2, t) ==
    [e3 EXCEPT !.val = (e1.val * (TDen - t) + e2.val * t) \div TDen]

(***************************************************************************)
(* Heap helpers.                                                           *)
(***************************************************************************)
\* addresses held by some scene's entity collection
Referenced(en) ==
    UNION {{en[s][i] : i \in 1..Len(en[s])} : s \in Scenes} \ {Null}

\* the allocator's next object: the lowest address not in use
Fresh(used) == CHOOSE a \in Addrs \ used : \A b \in Addrs \ used : a <= b

\* shared_ptr release: an object no collection holds any more is destroyed
Collect(h, en) == [a \in Addrs |-> IF a \in Referenced(en) THEN h[a] ELSE NoEnt]

\* std::vector::resize: cut, or pad with empty pointers
Resize(seq, n) == [i \in 1..n |-> IF i <= Len(seq) THEN seq[i] ELSE Null]

HasNull(seq) == \E i \in 1..Len(seq) : seq[i] = Null

(***************************************************************************)
(* The record of the last call: which operation, on which scenes, and what *)
(* it reported.  steps counts the calls made so far.                       *)
(***************************************************************************)
NoCall ==
    [op |-> "none", r |-> 0, a |-> 0, b |-> 0, t |-> 0,
     logged |-> 0, thrown |-> FALSE, steps |-> 0]

Call(op, r, a, b, t, logged, thrown) ==
    [op |-> op, r |-> r, a |-> a, b |-> b, t |-> t,
     logged |-> logged, thrown |-> thrown, steps |-> last.steps + 1]

\* the process is alive and the run may make another call
CanCall == last.op # "fault" /\ last.steps < MaxOps

\* a call through an empty pointer: the process dies in the call
Fault(op, r, a, b) ==
    /\ last' = [Call(op, r, a, b, 0, 0, FALSE) EXCEPT !.op = "fault"]
    /\ UNCHANGED <<heap, ents, settings, assets, constraints, wire, run>>

(***************************************************************************)
(* Scene::strip / Scene::merge                                             *)
(***************************************************************************)
\* (a guard that only checks the other collection is long enough)
AlignedLoose(n, m) == n <= m

\* the alignment guard: entity_count == base.entities.size()
Aligned(n, m) == n = m

\* one iteration of strip's parallel_for
StripSlot(h, ecur, ebase) ==
    IF h[ecur].id = h[ebase].id
    THEN [h EXCEPT ![ecur] = EntityStrip(h[ecur], h[ebase])]
    ELSE h

\* one iteration of merge's parallel_for
MergeSlot(h, ecur, ebase) ==
    IF h[ecur].id = h[ebase].id
    THEN [h EXCEPT ![ecur] = EntityMerge(h[ecur], h[ebase])]
    ELSE h

\* The iterations touch the objects of their own index only, so the order
\* in which the workers run them does not matter: they are folded in index
\* order.
RECURSIVE StripFrom(_, _, _, _)
StripFrom(h, cur, base, i) ==
    IF i > Len(cur) THEN h
    ELSE StripFrom(StripSlot(h, cur[i], base[i]), cur, base, i + 1)

RECURSIVE MergeFrom(_, _, _, _)
MergeFrom(h, cur, base, i) ==
    IF i > Len(cur) THEN h
    ELSE MergeFrom(MergeSlot(h, cur[i], base[i]), cur, base, i + 1)

Strip(r, base) ==
    /\ CanCall
    /\ IF ~Aligned(Len(ents[r]), Len(ents[base]))
       THEN /\ last' = Call("strip", r, base, base, 0, 0, FALSE)
            /\ UNCHANGED <<heap, ents, settings, assets, constraints, wire, run>>
       ELSE IF HasNull(ents[r]) \/ HasNull(ents[base])
       THEN Fault("strip", r, base, base)
       ELSE /\ heap' = StripFrom(heap, ents[r], ents[base], 1)
            /\ last' = Call("strip", r, base, base, 0, 0, FALSE)
            /\ UNCHANGED <<ents, settings, assets, constraints, wire, run>>

Merge(r, base) ==
    /\ CanCall
    /\ IF ~Aligned(Len(ents[r]), Len(ents[base]))
       THEN /\ last' = Call("merge", r, base, base, 0, 0, FALSE)
            /\ UNCHANGED <<heap, ents, settings, assets, constraints, wire, run>>
       ELSE IF HasNull(ents[r]) \/ HasNull(ents[base])
       THEN Fault("merge", r, base, base)
       ELSE /\ heap' = MergeFrom(heap, ents[r], ents[base], 1)
            /\ last' = Call("merge", r, base, base, 0, 0, FALSE)
            /\ UNCHANGED <<ents, settings, assets, constraints, wire, run>>

(***************************************************************************)
(* Scene::diff                                                             *)
(***************************************************************************)
\* The loops of diff, lerp and clone carry
\*   h the heap, out the receiver's collection, used the addresses taken,
\*   logged the number of msLogError calls.
\* (a diff that empties the slot of a mismatched index)
DiffSlotDrop(acc, e1, e2, i) ==
    IF acc.h[e1].id = acc.h[e2].id
    THEN LET e3 == Fresh(acc.used)
             d == EntityDiff(EntityClone(acc.h[e1], FALSE), acc.h[e1], acc.h[e2])
         IN [h |-> [acc.h EXCEPT ![e3] = d],
             out |-> [acc.out EXCEPT ![i] = e3],
             used |-> acc.used \cup {e3},
             logged |-> acc.logged]
    ELSE [acc EXCEPT !.logged = @ + 1, !.out[i] = Null]

\* one iteration of diff's parallel_for
DiffSlot(acc, e1, e2, i) ==
    IF acc.h[e1].id = acc.h[e2].id
    THEN LET e3 == Fresh(acc.used)
             d == EntityDiff(EntityClone(acc.h[e1], FALSE), acc.h[e1], acc.h[e2])
         IN [h |-> [acc.h EXCEPT ![e3] = d],
             out |-> [acc.out EXCEPT ![i] = e3],
             used |-> acc.used \cup {e3},
             logged |-> acc.logged]
    ELSE [acc EXCEPT !.logged = @ + 1]

RECURSIVE DiffFrom(_, _, _, _)
DiffFrom(acc, s1, s2, i) ==
    IF i > Len(s1) THEN acc
    ELSE DiffFrom(DiffSlot(acc, s1[i], s2[i], i), s1, s2, i + 1)

Diff(r, s1, s2) ==
    /\ CanCall
    /\ IF ~Aligned(Len(ents[s1]), Len(ents[s2]))
       THEN /\ last' = Call("diff", r, s1, s2, 0, 0, FALSE)
            /\ UNCHANGED <<heap, ents, settings, assets, constraints, wire, run>>
       ELSE IF HasNull(ents[s1]) \/ HasNull(ents[s2])
       THEN Fault("diff", r, s1, s2)
       ELSE LET n == Len(ents[s1])
                acc == DiffFrom([h |-> heap, out |-> Resize(ents[r], n),
                                 used |-> Referenced(ents), logged |-> 0],
                                ents[s1], ents[s2], 1)
                en == [ents EXCEPT ![r] = acc.out]
            IN /\ settings' = [settings EXCEPT ![r] = settings[s1]]
               /\ ents' = en
               /\ heap' = Collect(acc.h, en)
               /\ last' = Call("diff", r, s1, s2, 0, acc.logged, FALSE)
               /\ UNCHANGED <<assets, constraints, wire, run>>

(***************************************************************************)
(* Scene::lerp                                                             *)
(***************************************************************************)
\* (a hold test that forgets the topology flag)
HoldsAnyGeometry(e) == IsGeometry(e)

\* (a hold test with the topology flag read the wrong way round)
HoldsConstantTopology(e) == IsGeometry(e) /\ e.ct

\* the hold test: e1->isGeometry() && !e1->cache_flags.constant_topology
Holds(e) == IsGeometry(e) /\ ~e.ct

\* (a lerp that hands the two source entities over in the wrong order)
LerpSlotSwapped(acc, e1, e2, i, t) ==
    IF acc.h[e1].id = acc.h[e2].id
    THEN IF Holds(acc.h[e1])
         THEN [acc EXCEPT !.out[i] = e1]
         ELSE LET e3 == Fresh(acc.used)
                  d == EntityLerp(EntityClone(acc.h[e1], FALSE), acc.h[e2], acc.h[e1], t)
              IN [h |-> [acc.h EXCEPT ![e3] = d],
                  out |-> [acc.out EXCEPT ![i] = e3],
                  used |-> acc.used \cup {e3},
                  logged |-> acc.logged]
    ELSE acc

\* one iteration of lerp's parallel_for
LerpSlot(acc, e1, e2, i, t) ==
    IF acc.h[e1].id = acc.h[e2].id
    THEN IF Holds(acc.h[e1])
         THEN [acc EXCEPT !.out[i] = e1]
         ELSE LET e3 == Fresh(acc.used)
                  d == EntityLerp(EntityClone(acc.h[e1], FALSE), acc.h[e1], acc.h[e2], t)
              IN [h |-> [acc.h EXCEPT ![e3] = d],
                  out |-> [acc.out EXCEPT ![i] = e3],
                  used |-> acc.used \cup {e3},
                  logged |-> acc.logged]
    ELSE acc

RECURSIVE LerpFrom(_, _, _, _, _)
LerpFrom(acc, s1, s2, i, t) ==
    IF i > Len(s1) THEN acc
    ELSE LerpFrom(LerpSlot(acc, s1[i], s2[i], i, t), s1, s2, i + 1, t)

Lerp(r, s1, s2, t) ==
    /\ CanCall
    /\ IF ~Aligned(Len(ents[s1]), Len(ents[s2]))
       THEN /\ last' = Call("lerp", r, s1, s2, t, 0, FALSE)
            /\ UNCHANGED <<heap, ents, settings, assets, constraints, wire, run>>
       ELSE IF HasNull(ents[s1]) \/ HasNull(ents[s2])
       THEN Fault("lerp", r, s1, s2)
       ELSE LET n == Len(ents[s1])
                acc == LerpFrom([h |-> heap, out |-> Resize(ents[r], n),
                                 used |-> Referenced(ents), logged |-> 0],
                                ents[s1], ents[s2], 1, t)
                en == [ents EXCEPT ![r] = acc.out]
            IN /\ settings' = [settings EXCEPT ![r] = settings[s1]]
               /\ ents' = en
               /\ heap' = Collect(acc.h, en)
               /\ last' = Call("lerp", r, s1, s2, t, 0, FALSE)
               /\ UNCHANGED <<assets, constraints, wire, run>>

(***************************************************************************)
(* Scene::clone.  The caller keeps the result in scene variable dst.       *)
(***************************************************************************)
\* one iteration of clone's parallel_for
CloneSlot(acc, e, i, detach) ==
    LET c == Fresh(acc.used)
    IN [h |-> [acc.h EXCEPT ![c] = EntityClone(acc.h[e], detach)],
        out |-> [acc.out EXCEPT ![i] = c],
        used |-> acc.used \cup {c},
        logged |-> acc.logged]

RECURSIVE CloneFrom(_, _, _, _)
CloneFrom(acc, src, i, detach) ==
    IF i > Len(src) THEN acc
    ELSE CloneFrom(CloneSlot(acc, src[i], i, detach), src, i + 1, detach)

Clone(src, dst, detach) ==
    /\ CanCall
    /\ IF HasNull(ents[src])
       THEN Fault("clone", dst, src, src)
       ELSE LET acc == CloneFrom([h |-> heap, out |-> ents[src],
                                  used |-> Referenced(ents), logged |-> 0],
                                 ents[src], 1, detach)
                en == [ents EXCEPT ![dst] = acc.out]
            IN /\ settings' = [settings EXCEPT ![dst] = settings[src]]
               /\ assets' = [assets EXCEPT ![dst] = assets[src]]
               /\ constraints' = [constraints EXCEPT ![dst] = constraints[src]]
               /\ ents' = en
               /\ heap' = Collect(acc.h, en)
               /\ last' = Call("clone", dst, src, src, 0, 0, FALSE)
               /\ UNCHANGED <<wire, run>>

(***************************************************************************)
(* Settings, assets, constraints.                                          *)
(***************************************************************************)
Handedness == {"Left", "Right", "LeftZUp", "RightZUp"}

SceneSettings(n, hd, sf) == [name |-> n, handedness |-> hd, scale_factor |-> sf]

\* SceneSettings{}: what a constructed scene starts with
DefaultSettings == SceneSettings("", "Left", 1)

Asset(ty, v) == [type |-> ty, val |-> v]

\* The stream in flight: data is what was written, as a sequence of
\* numbers; src is the scene that wrote it (0: nothing written) and edit
\* what happened to the data on the way.
NoWire == [data |-> <<>>, src |-> 0, edit |-> "none"]

\* The buildHierarchy call in progress (its worker blocks run one step at a
\* time); idle when no such call is running.
NoRun == [phase |-> "idle"]

(***************************************************************************)
(* Spec: two snapshots of a scene and a third, freshly constructed scene.  *)
(* Snapshot 1 holds n1 entities with ids 1..n1; snapshot 2 holds n2        *)
(* entities, each the same entity as snapshot 1's at its index with equal  *)
(* or changed data, or an entity of another identity.                      *)
(***************************************************************************)
Flavours == Kinds \X BOOLEAN
Variants == {"same", "moved", "other"}

First(i, f) == Ent(i, f[1], f[2], 1)

Second(i, f, v) ==
    CASE v = "same" -> Ent(i, f[1], f[2], 1)
      [] v = "moved" -> Ent(i, f[1], f[2], 3)
      [] v = "other" -> Ent(i + MaxLen, f[1], f[2], 3)

Init ==
    \E n1 \in 0..MaxLen, n2 \in 0..MaxLen :
    \E fl \in [1..MaxLen -> Flavours], vr \in [1..MaxLen -> Variants] :
        /\ heap = [a \in Addrs |->
                     IF a <= n1 THEN First(a, fl[a])
                     ELSE IF a <= n1 + n2 THEN Second(a - n1, fl[a - n1], vr[a - n1])
                     ELSE NoEnt]
        /\ ents = [s \in Scenes |->
                     IF s = 1 THEN [i \in 1..n1 |-> i]
                     ELSE IF s = 2 THEN [i \in 1..n2 |-> n1 + i]
                     ELSE <<>>]
        /\ settings = [s \in Scenes |->
                         IF s = 1 THEN SceneSettings("a", "Right", 2)
                         ELSE IF s = 2 THEN SceneSettings("b", "LeftZUp", 1)
                         ELSE DefaultSettings]
        /\ assets = [s \in Scenes |->
                       IF s = 1 THEN <<Asset("Texture", 1)>> ELSE <<>>]
        /\ constraints = [s \in Scenes |-> IF s = 2 THEN <<1>> ELSE <<>>]
        /\ wire = NoWire
        /\ last = NoCall
        /\ run = NoRun

Next ==
    \/ \E r \in Scenes, base \in Snapshots : Strip(r, base)
    \/ \E r \in Scenes, base \in Snapshots : Merge(r, base)
    \/ \E r \in Scenes, p \in SourcePairs : Diff(r, p[1], p[2])
    \/ \E r \in Scenes, p \in SourcePairs, t \in Fractions :
           Lerp(r, p[1], p[2], t)
    \/ \E src \in Snapshots, dst \in Scenes, detach \in BOOLEAN :
           Clone(src, dst, detach)

Spec == Init /\ [][Next]_vars

(***************************************************************************)
(* Properties of the tree-wide transforms (checked under Spec).            *)
(***************************************************************************)
\* the step is a call that returned (not a stutter, not a fault)
Called(ops) == last'.steps = last.steps + 1 /\ last'.op \in ops

SceneFrame == UNCHANGED <<heap, ents, settings, assets, constraints>>

\* the two collections whose lengths the call compares
Compared(c) == IF c.op \in {"strip", "merge"} THEN <<c.r, c.a>> ELSE <<c.a, c.b>>

Misaligned(c) == Len(ents[Compared(c)[1]]) # Len(ents[Compared(c)[2]])

\* C1: a strip, merge, diff or lerp between collections of different
\* lengths changes nothing: not the receiver (settings, assets, entities,
\* constraints, nor any entity object), not base, s1 or s2.
C1_AlignmentGuard ==
    [][Called({"strip", "merge", "diff", "lerp"}) /\ Misaligned(last')
          => SceneFrame]_vars

\* a strip was called on a receiver holding entities against a base of
\* another length
C1_Witness ==
    /\ last.op = "strip"
    /\ Len(ents[last.r]) > 0
    /\ Len(ents[last.a]) > 0
    /\ Misaligned(last)

\* C8: no entity object is an element of the entity collections of two
\* distinct scenes.
C8_ExclusiveOwnership ==
    \A s \in Scenes, u \in Scenes :
        s # u =>
            \A i \in 1..Len(ents[s]), j \in 1..Len(ents[u]) :
                ents[s][i] # Null => ents[s][i] # ents[u][j]

\* the ids of s1's and s2's entities at index i differ
IdsDiffer(a, b, i) == heap[ents[a][i]].id # heap[ents[b][i]].id

\* slot i of the receiver is as resize left it: the pointer it held, or an
\* empty pointer where the collection grew, and the object is untouched
Skipped(r, i) ==
    /\ ents'[r][i] = (IF i <= Len(ents[r]) THEN ents[r][i] ELSE Null)
    /\ ents'[r][i] # Null => heap'[ents'[r][i]] = heap[ents'[r][i]]

\* slot i of the receiver holds a new object, held nowhere else, equal to v
FreshlyHolds(r, i, v) ==
    /\ ents'[r][i] \in Addrs \ Referenced(ents)
    /\ \A s \in Scenes : \A j \in 1..Len(ents'[s]) :
           ents'[s][j] = ents'[r][i] => s = r /\ j = i
    /\ heap'[ents'[r][i]] = v

\* C9: in R.diff(s1, s2) over collections of equal length, every index
\* whose ids differ is logged and skipped (the receiver's slot keeps the
\* pointer it had, or stays empty if the collection grew), every index
\* whose ids match receives a fresh clone of s1's entity holding its diff
\* against s2's, and R.settings = s1.settings.
C9_DiffMismatch ==
    [][Called({"diff"}) /\ ~Misaligned(last')
          => LET r == last'.r
                 a == last'.a
                 b == last'.b
                 n == Len(ents[a])
             IN /\ Len(ents'[r]) = n
                /\ settings'[r] = settings[a]
                /\ last'.logged = Cardinality({i \in 1..n : IdsDiffer(a, b, i)})
                /\ \A i \in 1..n :
                       IF IdsDiffer(a, b, i)
                       THEN Skipped(r, i)
                       ELSE FreshlyHolds(r, i,
                                EntityDiff(heap[ents[a][i]], heap[ents[a][i]],
                                           heap[ents[b][i]]))]_vars

\* a diff into a populated third scene logged one mismatch, kept that slot
\* and replaced the other
C9_Witness ==
    /\ last.op = "diff"
    /\ last.r = 3
    /\ last.logged = 1
    /\ Len(ents[3]) = 2
    /\ ~HasNull(ents[3])

\* the entities the claim says are held verbatim: a geometry kind whose
\* constant_topology flag is unset
GeometryOfChangingTopology(e) == IsGeometry(e) /\ e.ct = FALSE

\* the slot lerp produces at index i of the receiver
LerpResult(r, a, b, i, t) ==
    IF GeometryOfChangingTopology(heap[ents[a][i]])
    THEN /\ ents'[r][i] = ents[a][i]
         /\ heap'[ents'[r][i]] = heap[ents[a][i]]
    ELSE FreshlyHolds(r, i,
             EntityLerp(heap[ents[a][i]], heap[ents[a][i]], heap[ents[b][i]], t))

\* C10 as stated: in R.lerp(s1, s2, t) over collections of equal length,
\* every index holds s1's entity itself when it is a geometry without
\* constant topology, and otherwise a fresh clone interpolated at t.
C10_EveryPair ==
    [][Called({"lerp"}) /\ ~Misaligned(last')
          => \A i \in 1..Len(ents[last'.a]) :
                 LerpResult(last'.r, last'.a, last'.b, i, last'.t)]_vars

\* C10 amended: the hold policy applies at the indices whose ids match; an
\* index whose ids differ is skipped.
C10_LerpHoldPolicy ==
    [][Called({"lerp"}) /\ ~Misaligned(last')
          => /\ Len(ents'[last'.r]) = Len(ents[last'.a])
             /\ \A i \in 1..Len(ents[last'.a]) :
                    IF IdsDiffer(last'.a, last'.b, i)
                    THEN Skipped(last'.r, i)
                    ELSE LerpResult(last'.r, last'.a, last'.b, i, last'.t)]_vars

\* a lerp at t = 1/2 into another scene held one of s1's entities and
\* interpolated another
C10_Witness ==
    /\ last.op = "lerp"
    /\ last.t = 1
    /\ last.r # last.a
    /\ Len(ents[last.r]) = Len(ents[last.a])
    /\ \E i \in 1..Len(ents[last.r]), j \in 1..Len(ents[last.r]) :
           /\ ents[last.r][i] # Null
           /\ ents[last.r][i] = ents[last.a][i]
           /\ GeometryOfChangingTopology(heap[ents[last.r][i]])
           /\ ents[last.r][j] # Null
           /\ ents[last.r][j] # ents[last.a][j]
           /\ heap[ents[last.r][j]].val = 2

\* C11 as stated: in R.lerp(s1, s2, t) over collections of equal length,
\* every entity of s1 whose constant_topology flag is unset comes out equal
\* to s1's entity, whatever t and s2 are.
C11_UnsetAlwaysHeld ==
    [][Called({"lerp"}) /\ ~Misaligned(last')
          => \A i \in 1..Len(ents[last'.a]) :
                 ~heap[ents[last'.a][i]].ct
                     => /\ ents'[last'.r][i] # Null
                        /\ heap'[ents'[last'.r][i]] = heap[ents[last'.a][i]]]_vars

\* C11 amended: a geometry entity of s1 whose constant_topology flag is
\* unset and whose id matches s2's at its index comes out as s1's entity
\* itself, unchanged, whatever t and s2's data are.
C11_GeometryHeld ==
    [][Called({"lerp"}) /\ ~Misaligned(last')
          => \A i \in 1..Len(ents[last'.a]) :
                 (/\ GeometryOfChangingTopology(heap[ents[last'.a][i]])
                  /\ ~IdsDiffer(last'.a, last'.b, i))
                     => /\ ents'[last'.r][i] = ents[last'.a][i]
                        /\ heap'[ents[last'.a][i]] = heap[ents[last'.a][i]]]_vars

\* a lerp at t = 1 held a geometry of changing topology whose data differ
\* between s1 and s2
C11_Witness ==
    /\ last.op = "lerp"
    /\ last.t = TDen
    /\ last.r \notin {last.a, last.b}
    /\ Len(ents[last.r]) = Len(ents[last.a])
    /\ Len(ents[last.b]) = Len(ents[last.a])
    /\ \E i \in 1..Len(ents[last.a]) :
           /\ ents[last.r][i] = ents[last.a][i]
           /\ GeometryOfChangingTopology(heap[ents[last.a][i]])
           /\ heap[ents[last.a][i]].val # heap[ents[last.b][i]].val

\* the source scene whose entities a lerp at a boundary fraction returns
BoundarySource(c) == IF c.t = 0 THEN c.a ELSE c.b

\* C12 as stated: over collections of equal length, lerp at t = 0 yields
\* s1's entity and lerp at t = 1 yields s2's entity at every index whose
\* entity has constant_topology set.
C12_Boundary ==
    [][Called({"lerp"}) /\ ~Misaligned(last') /\ last'.t \in {0, TDen}
          => \A i \in 1..Len(ents[last'.a]) :
                 heap[ents[last'.a][i]].ct
                     => /\ ents'[last'.r][i] # Null
                        /\ heap'[ents'[last'.r][i]]
                               = heap[ents[BoundarySource(last')][i]]]_vars

\* C12 amended: the boundary law holds at the indices whose ids match.
C12_BoundaryMatchingIds ==
    [][Called({"lerp"}) /\ ~Misaligned(last') /\ last'.t \in {0, TDen}
          => \A i \in 1..Len(ents[last'.a]) :
                 (heap[ents[last'.a][i]].ct /\ ~IdsDiffer(last'.a, last'.b, i))
                     => /\ ents'[last'.r][i] \in Addrs \ Referenced(ents)
                        /\ heap'[ents'[last'.r][i]]
                               = heap[ents[BoundarySource(last')][i]]]_vars

\* a lerp at t = 1 into a third scene produced s2's data for an entity of
\* constant topology whose data differ between s1 and s2
C12_Witness ==
    /\ last.op = "lerp"
    /\ last.t = TDen
    /\ last.r \notin {last.a, last.b}
    /\ Len(ents[last.r]) = Len(ents[last.a])
    /\ Len(ents[last.b]) = Len(ents[last.a])
    /\ \E i \in 1..Len(ents[last.a]) :
           /\ heap[ents[last.a][i]].ct
           /\ heap[ents[last.a][i]].val # heap[ents[last.b][i]].val
           /\ ents[last.r][i] \notin {Null, ents[last.a][i], ents[last.b][i]}
           /\ heap[ents[last.r][i]] = heap[ents[last.b][i]]

\* what S.merge(B) makes of the heap S.strip(B) has just left
MergedBack(c) == MergeFrom(heap', ents[c.r], ents[c.a], 1)

\* no object is held by both collections
Unshared(r, b) ==
    \A i \in 1..Len(ents[r]), j \in 1..Len(ents[b]) : ents[r][i] # ents[b][j]

\* what the inverse law says of one S.strip(B) and the S.merge(B) after it
InverseLaw(c) ==
    /\ (\A i \in 1..Len(ents[c.r]) : ~IdsDiffer(c.r, c.a, i))
           => \A i \in 1..Len(ents[c.r]) :
                  heap[ents[c.r][i]].val # 0
                      => MergedBack(c)[ents[c.r][i]] = heap[ents[c.r][i]]
    /\ \A i \in 1..Len(ents[c.a]) :
           /\ heap'[ents[c.a][i]] = heap[ents[c.a][i]]
           /\ MergedBack(c)[ents[c.a][i]] = heap[ents[c.a][i]]
    /\ \A i \in 1..Len(ents[c.r]) :
           IdsDiffer(c.r, c.a, i)
               => /\ heap'[ents[c.r][i]] = heap[ents[c.r][i]]
                  /\ MergedBack(c)[ents[c.r][i]] = heap[ents[c.r][i]]

\* C13: for a scene S and a base B of equal entity counts, S.strip(B)
\* followed by S.merge(B) restores every non-default field of S's entities
\* when the ids match at every index, leaves B unchanged, and leaves the
\* entities at indices of differing ids untouched.
C13_StripMergeInverse ==
    [][Called({"strip"}) /\ ~Misaligned(last') /\ last'.r # last'.a
          => InverseLaw(last')]_vars

\* the same law for a scene and a base that share no entity object
C13_InverseWhenUnshared ==
    [][Called({"strip"}) /\ ~Misaligned(last') /\ last'.r # last'.a
          /\ Unshared(last'.r, last'.a)
          => InverseLaw(last')]_vars

(***************************************************************************)
(* Scene::hash                                                             *)
(***************************************************************************)
\* Entity::hash / Asset::hash: a 64-bit value that depends on the data
HashOfVal(v) ==
    CASE v = 0 -> U64Zero
      [] v = 1 -> U64One
      [] v = 2 -> U64Top
      [] OTHER -> U64Max

EntityHash(e) == HashOfVal(e.val)
AssetHash(a) == HashOfVal(a.val)

\* (an accumulation that clamps at 2^64 - 1)
HashStepSaturating(ret, x) == AddSat64(ret, x)

\* (an accumulation that mixes the running value before adding)
HashStepMixing(ret, x) == Add64(Add64(ret, ret), x)

\* ret += x->hash()
HashStep(ret, x) == Add64(ret, x)

RECURSIVE HashFrom(_, _, _)
HashFrom(ret, hs, i) ==
    IF i > Len(hs) THEN ret ELSE HashFrom(HashStep(ret, hs[i]), hs, i + 1)

\* Scene::hash over the asset and entity objects as and es
SceneHash(as, es) ==
    HashFrom(HashFrom(U64Zero, [i \in 1..Len(as) |-> AssetHash(as[i])], 1),
             [i \in 1..Len(es) |-> EntityHash(es[i])], 1)

\* the entity objects a collection of addresses points to
EntsOf(h, seq) == [i \in 1..Len(seq) |-> h[seq[i]]]

(***************************************************************************)
(* The encoding of each field (write / read of msSerializer, and each      *)
(* entity's and asset's own serialize / deserialize).  Every field is      *)
(* written as numbers; a collection is written as its count followed by    *)
(* its elements, each element starting with its type tag.                  *)
(***************************************************************************)
NameTable == <<"", "a", "b">>
HandednessTable == <<"Left", "Right", "LeftZUp", "RightZUp">>
KindTable == <<"Transform", "Mesh">>
AssetTypeTable == <<"Texture", "Material">>

IndexOf(table, x) == CHOOSE i \in 1..Len(table) : table[i] = x

RECURSIVE Concat(_)
Concat(seqs) == IF seqs = <<>> THEN <<>> ELSE Head(seqs) \o Concat(Tail(seqs))

WriteU64(x) == [k \in 1..NLimbs |-> x[k]]
ReadU64(d, p) == [k \in 1..NLimbs |-> d[p + k - 1]]

WriteSettings(st) ==
    <<IndexOf(NameTable, st.name), IndexOf(HandednessTable, st.handedness),
      st.scale_factor>>
ReadSettings(d, p) ==
    SceneSettings(NameTable[d[p]], HandednessTable[d[p + 1]], d[p + 2])

WriteAsset(a) == <<IndexOf(AssetTypeTable, a.type), a.val>>
ReadAsset(d, p) == Asset(AssetTypeTable[d[p]], d[p + 1])

WriteEntity(e) ==
    <<IndexOf(KindTable, e.kind), e.id, IF e.ct THEN 1 ELSE 0, e.val>>
ReadEntity(d, p) == Ent(d[p + 1], KindTable[d[p]], d[p + 2] = 1, d[p + 3])

WriteConstraint(c) == <<c>>
ReadConstraint(d, p) == d[p]

SettingsWidth == Len(WriteSettings(DefaultSettings))
AssetWidth == Len(WriteAsset(Asset("Texture", 0)))
EntityWidth == Len(WriteEntity(Ent(1, "Mesh", FALSE, 0)))
ConstraintWidth == Len(WriteConstraint(0))

\* a collection: its count, then its elements
WriteVec(written) == <<Len(written)>> \o Concat(written)

\* position of element i of the collection whose count is at p
ElemAt(p, w, i) == p + 1 + (i - 1) * w

\* position after the collection whose count is at p
VecEnd(d, p, w) == p + 1 + d[p] * w

(***************************************************************************)
(* Scene::serialize / Scene::deserialize / Scene::create(std::istream&)    *)
(***************************************************************************)
\* (a serialize that hashes the entities only)
SerializeHashEntitiesOnly(as, es) == SceneHash(<<>>, es)

\* uint64_t validation_hash = hash()
SerializeHash(as, es) == SceneHash(as, es)

\* write(os, validation_hash); EachMember(msWrite)
SerializeData(st, as, es, cs) ==
    WriteU64(SerializeHash(as, es))
        \o WriteSettings(st)
        \o WriteVec([i \in 1..Len(as) |-> WriteAsset(as[i])])
        \o WriteVec([i \in 1..Len(es) |-> WriteEntity(es[i])])
        \o WriteVec([i \in 1..Len(cs) |-> WriteConstraint(cs[i])])

\* positions of the settings and of the three counts in the data d
SettingsPos == NLimbs + 1
AssetsPos == SettingsPos + SettingsWidth
EntitiesPos(d) == VecEnd(d, AssetsPos, AssetWidth)
ConstraintsPos(d) == VecEnd(d, EntitiesPos(d), EntityWidth)

\* read(is, validation_hash); EachMember(msRead)
ReadScene(d) ==
    [hash |-> ReadU64(d, 1),
     settings |-> ReadSettings(d, SettingsPos),
     assets |-> [i \in 1..d[AssetsPos] |->
                    ReadAsset(d, ElemAt(AssetsPos, AssetWidth, i))],
     entities |-> [i \in 1..d[EntitiesPos(d)] |->
                      ReadEntity(d, ElemAt(EntitiesPos(d), EntityWidth, i))],
     constraints |-> [i \in 1..d[ConstraintsPos(d)] |->
                         ReadConstraint(d, ElemAt(ConstraintsPos(d), ConstraintWidth, i))]]

\* (a check that compares the low 16 bits only)
HashMismatchLow(validation_hash, computed) == validation_hash[1] # computed[1]

\* if (validation_hash != hash())
HashMismatch(validation_hash, computed) == validation_hash # computed

\* the objects a read creates for the entities es, at fresh addresses
RECURSIVE NewFrom(_, _, _)
NewFrom(acc, es, i) ==
    IF i > Len(es) THEN acc
    ELSE LET c == Fresh(acc.used)
         IN NewFrom([h |-> [acc.h EXCEPT ![c] = es[i]],
                     out |-> Append(acc.out, c),
                     used |-> acc.used \cup {c}], es, i + 1)

Serialize(s) ==
    /\ CanCall
    /\ wire.src = 0
    /\ IF HasNull(ents[s])
       THEN Fault("serialize", s, s, s)
       ELSE /\ wire' = [data |-> SerializeData(settings[s], assets[s],
                                               EntsOf(heap, ents[s]), constraints[s]),
                        src |-> s, edit |-> "none"]
            /\ last' = Call("serialize", s, s, s, 0, 0, FALSE)
            /\ UNCHANGED <<heap, ents, settings, assets, constraints, run>>

\* The members are read into the receiver, then the hash is checked.  The
\* stream object is not consumed in the model: wire keeps what was read.
Deserialize(r) ==
    /\ CanCall
    /\ wire.src # 0
    /\ LET sc == ReadScene(wire.data)
           acc == NewFrom([h |-> heap, out |-> <<>>, used |-> Referenced(ents)],
                          sc.entities, 1)
           en == [ents EXCEPT ![r] = acc.out]
       IN /\ settings' = [settings EXCEPT ![r] = sc.settings]
          /\ assets' = [assets EXCEPT ![r] = sc.assets]
          /\ constraints' = [constraints EXCEPT ![r] = sc.constraints]
          /\ ents' = en
          /\ heap' = Collect(acc.h, en)
          /\ last' = Call("deserialize", r, wire.src, wire.src, 0, 0,
                          HashMismatch(sc.hash,
                                       SceneHash(sc.assets, EntsOf(acc.h, acc.out))))
          /\ UNCHANGED <<wire, run>>

\* auto ret = create(); ret->deserialize(is); return ret;  The caller
\* assigns the result to scene variable dst; when deserialize throws, the
\* exception leaves create, ret is destroyed and nothing is assigned.
Create(dst) ==
    /\ CanCall
    /\ wire.src # 0
    /\ LET sc == ReadScene(wire.data)
           acc == NewFrom([h |-> heap, out |-> <<>>, used |-> Referenced(ents)],
                          sc.entities, 1)
           en == [ents EXCEPT ![dst] = acc.out]
           thrown == HashMismatch(sc.hash,
                                  SceneHash(sc.assets, EntsOf(acc.h, acc.out)))
       IN /\ last' = Call("create", dst, wire.src, wire.src, 0, 0, thrown)
          /\ UNCHANGED <<wire, run>>
          /\ IF thrown
             THEN UNCHANGED <<heap, ents, settings, assets, constraints>>
             ELSE /\ settings' = [settings EXCEPT ![dst] = sc.settings]
                  /\ assets' = [assets EXCEPT ![dst] = sc.assets]
                  /\ constraints' = [constraints EXCEPT ![dst] = sc.constraints]
                  /\ ents' = en
                  /\ heap' = Collect(acc.h, en)

(***************************************************************************)
(* What can happen to the stream between the writer and the reader: one    *)
(* field after the hash is altered, the hash itself is altered, or two     *)
(* neighbouring assets or entities change places (a producer that wrote    *)
(* the same collection in another order).                                  *)
(***************************************************************************)
\* the field written at position p of the data d
FieldAt(d, p) ==
    IF p <= NLimbs THEN "hash"
    ELSE IF p < AssetsPos
    THEN <<"name", "handedness", "scale_factor">>[p - NLimbs]
    ELSE IF p = AssetsPos THEN "count"
    ELSE IF p < EntitiesPos(d)
    THEN <<"type", "val">>[((p - AssetsPos - 1) % AssetWidth) + 1]
    ELSE IF p = EntitiesPos(d) THEN "count"
    ELSE IF p < ConstraintsPos(d)
    THEN <<"kind", "id", "ct", "val">>[((p - EntitiesPos(d) - 1) % EntityWidth) + 1]
    ELSE IF p = ConstraintsPos(d) THEN "count"
    ELSE "constraint"

\* the values a field can take
FieldValues(f) ==
    CASE f = "name" -> 1..Len(NameTable)
      [] f = "handedness" -> 1..Len(HandednessTable)
      [] f = "scale_factor" -> 1..2
      [] f = "type" -> 1..Len(AssetTypeTable)
      [] f = "kind" -> 1..Len(KindTable)
      [] f = "id" -> 1..(2 * MaxLen)
      [] f = "ct" -> 0..1
      [] f = "val" -> 0..3
      [] f = "constraint" -> 1..2
      [] f = "hash" -> {0, 1, LimbBase \div 2, LimbBase - 1}
      [] OTHER -> {}

AlterField(p, v) ==
    /\ last.op = "serialize"
    /\ wire.edit = "none"
    /\ p \in (NLimbs + 1)..Len(wire.data)
    /\ v \in FieldValues(FieldAt(wire.data, p)) \ {wire.data[p]}
    /\ wire' = [wire EXCEPT !.data[p] = v, !.edit = "field"]
    /\ UNCHANGED <<heap, ents, settings, assets, constraints, last, run>>

AlterHash(p, v) ==
    /\ last.op = "serialize"
    /\ wire.edit = "none"
    /\ p \in 1..NLimbs
    /\ v \in FieldValues("hash") \ {wire.data[p]}
    /\ wire' = [wire EXCEPT !.data[p] = v, !.edit = "hash"]
    /\ UNCHANGED <<heap, ents, settings, assets, constraints, last, run>>

\* d with elements i and i + 1 of the collection at p exchanged
SwapElems(d, p, w, i) ==
    [q \in 1..Len(d) |->
        IF q >= ElemAt(p, w, i) /\ q < ElemAt(p, w, i + 1) THEN d[q + w]
        ELSE IF q >= ElemAt(p, w, i + 1) /\ q < ElemAt(p, w, i + 2) THEN d[q - w]
        ELSE d[q]]

ReorderAssets(i) ==
    /\ last.op = "serialize"
    /\ wire.edit \in {"none", "order"}
    /\ i \in 1..(wire.data[AssetsPos] - 1)
    /\ wire' = [wire EXCEPT !.data = SwapElems(wire.data, AssetsPos, AssetWidth, i),
                            !.edit = "order"]
    /\ UNCHANGED <<heap, ents, settings, assets, constraints, last, run>>

ReorderEntities(i) ==
    /\ last.op = "serialize"
    /\ wire.edit \in {"none", "order"}
    /\ i \in 1..(wire.data[EntitiesPos(wire.data)] - 1)
    /\ wire' = [wire EXCEPT !.data = SwapElems(wire.data, EntitiesPos(wire.data),
                                               EntityWidth, i),
                            !.edit = "order"]
    /\ UNCHANGED <<heap, ents, settings, assets, constraints, last, run>>

(***************************************************************************)
(* SpecIO: scene 1 is the producer's scene, scene 2 a scene the consumer   *)
(* already holds, scene 3 a freshly constructed one.                       *)
(***************************************************************************)
Producers == {1}
Created == {3}

ProducerEntity(i, v) ==
    IF i % 2 = 1 THEN Ent(i, "Mesh", TRUE, v) ELSE Ent(i, "Transform", FALSE, v)

InitIO ==
    \E n \in 0..MaxLen, na \in 0..MaxLen :
    \E ev \in [1..n -> 0..3], av \in [1..na -> {1, 3}] :
        /\ heap = [a \in Addrs |->
                     IF a <= n THEN ProducerEntity(a, ev[a])
                     ELSE IF a = n + 1 THEN Ent(2 * MaxLen, "Mesh", FALSE, 2)
                     ELSE NoEnt]
        /\ ents = [s \in Scenes |->
                     IF s = 1 THEN [i \in 1..n |-> i]
                     ELSE IF s = 2 THEN <<n + 1>>
                     ELSE <<>>]
        /\ settings = [s \in Scenes |->
                         IF s = 1 THEN SceneSettings("a", "Right", 2)
                         ELSE IF s = 2 THEN SceneSettings("b", "LeftZUp", 1)
                         ELSE DefaultSettings]
        /\ assets = [s \in Scenes |->
                       IF s = 1 THEN [i \in 1..na |-> Asset("Texture", av[i])]
                       ELSE <<>>]
        /\ constraints = [s \in Scenes |-> IF s = 1 THEN <<1>> ELSE <<>>]
        /\ wire = NoWire
        /\ last = NoCall
        /\ run = NoRun

NextIO ==
    \/ \E s \in Producers : Serialize(s)
    \/ \E p \in 1..(NLimbs + SettingsWidth + 3 + MaxLen * (AssetWidth + EntityWidth + ConstraintWidth)),
          v \in 0..3 : AlterField(p, v)
    \/ \E p \in 1..NLimbs, v \in FieldValues("hash") : AlterHash(p, v)
    \/ \E i \in 1..MaxLen : ReorderAssets(i)
    \/ \E i \in 1..MaxLen : ReorderEntities(i)
    \/ \E r \in Scenes : Deserialize(r)
    \/ \E dst \in Created : Create(dst)

SpecIO == InitIO /\ [][NextIO]_vars

(***************************************************************************)
(* Properties of serialization (checked under SpecIO).                     *)
(***************************************************************************)
\* what scene s holds, entity objects by value
ContentOf(s) ==
    [settings |-> settings[s], assets |-> assets[s],
     entities |-> EntsOf(heap, ents[s]), constraints |-> constraints[s]]

\* what scene s holds after the step
ContentAfter(s) ==
    [settings |-> settings'[s], assets |-> assets'[s],
     entities |-> EntsOf(heap', ents'[s]), constraints |-> constraints'[s]]

EmptyContent ==
    [settings |-> DefaultSettings, assets |-> <<>>, entities |-> <<>>,
     constraints |-> <<>>]

\* what a read of the data d builds
ContentRead(d) ==
    [settings |-> ReadScene(d).settings, assets |-> ReadScene(d).assets,
     entities |-> ReadScene(d).entities, constraints |-> ReadScene(d).constraints]

\* the hash of a content
HashOfContent(c) == SceneHash(c.assets, c.entities)

\* C2: deserialize throws exactly when the hash read differs from the hash
\* of the assets and entities just read into the receiver; create throws
\* in the same cases, then assigns nothing, and otherwise hands back the
\* scene that was read.
C2_HashCheck ==
    [][Called({"deserialize", "create"})
          => LET d == wire.data
                 r == last'.r
             IN IF last'.op = "deserialize"
                THEN /\ ContentAfter(r) = ContentRead(d)
                     /\ last'.thrown = (ReadU64(d, 1) # HashOfContent(ContentAfter(r)))
                ELSE /\ last'.thrown = (ReadU64(d, 1) # HashOfContent(ContentRead(d)))
                     /\ IF last'.thrown
                        THEN SceneFrame
                        ELSE ContentAfter(r) = ContentRead(d)]_vars

\* a create whose input carried a wrong hash threw, and a deserialize of a
\* stream with an altered hash threw
C2_Witness ==
    /\ last.op = "create"
    /\ last.thrown
    /\ wire.edit = "hash"
    /\ ContentOf(last.r) = EmptyContent

\* C3: after a deserialize that throws, the receiver holds nothing read
\* from the input: it is as it was before the call, or empty.
C3_AllOrNothing ==
    [][Called({"deserialize"}) /\ last'.thrown
          => \/ ContentAfter(last'.r) = ContentOf(last'.r)
             \/ ContentAfter(last'.r) = EmptyContent]_vars

\* the data serialize writes for scene s
DataOf(s) ==
    SerializeData(settings[s], assets[s], EntsOf(heap, ents[s]), constraints[s])

\* C4: deserializing what serialize wrote for scene S succeeds and builds
\* a scene whose settings, assets, entities and constraints equal S's, in
\* the same order.
C4_RoundTrip ==
    [][Called({"deserialize", "create"}) /\ wire.edit = "none"
          /\ wire.data = DataOf(wire.src)
          => /\ ~last'.thrown
             /\ ContentAfter(last'.r) = ContentOf(wire.src)]_vars

\* a populated scene was written and read back into another scene
C4_Witness ==
    /\ last.op = "deserialize"
    /\ ~last.thrown
    /\ wire.edit = "none"
    /\ last.r # wire.src
    /\ Len(ents[last.r]) = MaxLen
    /\ Len(assets[last.r]) > 0
    /\ ContentOf(last.r) = ContentOf(wire.src)

\* The exact sum of the 64-bit values hs, computed column by column:
\* ExactLow is the sum modulo 2^64, ExactHigh the part above.
RECURSIVE ColumnSum(_, _, _)
ColumnSum(hs, k, i) ==
    IF i > Len(hs) THEN 0 ELSE hs[i][k] + ColumnSum(hs, k, i + 1)

RECURSIVE WideCarry(_, _)
WideCarry(hs, k) ==
    IF k = 0 THEN 0
    ELSE (ColumnSum(hs, k, 1) + WideCarry(hs, k - 1)) \div LimbBase

ExactLow(hs) ==
    [k \in 1..NLimbs |-> (ColumnSum(hs, k, 1) + WideCarry(hs, k - 1)) % LimbBase]

ExactHigh(hs) == WideCarry(hs, NLimbs)

\* the hashes of a content's assets and entities
HashesOf(c) ==
    [i \in 1..Len(c.assets) |-> AssetHash(c.assets[i])]
        \o [i \in 1..Len(c.entities) |-> EntityHash(c.entities[i])]

\* C5 as stated: the hash serialize writes is the saturating sum of the
\* asset and entity hashes (2^64 - 1 when the exact sum is larger).
C5_SaturatingSum ==
    last.op = "serialize" /\ wire.edit = "none"
        => ReadU64(wire.data, 1) =
              (IF ExactHigh(HashesOf(ContentOf(last.r))) > 0
               THEN U64Max
               ELSE ExactLow(HashesOf(ContentOf(last.r))))

\* C5 amended: the hash serialize writes, and the hash deserialize
\* compares with the one it read, is the sum of the asset and entity
\* hashes modulo 2^64.
C5_WrappingSum ==
    /\ last.op = "serialize" /\ wire.edit = "none"
           => ReadU64(wire.data, 1) = ExactLow(HashesOf(ContentOf(last.r)))
    /\ last.op = "deserialize"
           => last.thrown =
                 (ReadU64(wire.data, 1) # ExactLow(HashesOf(ContentOf(last.r))))

\* a scene whose hashes sum to more than 2^64 - 1 was written, and the hash
\* written is not 2^64 - 1
C5_Witness ==
    /\ last.op = "serialize"
    /\ wire.edit = "none"
    /\ ExactHigh(HashesOf(ContentOf(last.r))) > 0
    /\ ReadU64(wire.data, 1) # U64Max

\* the data differs from what serialize wrote for its source scene in
\* exactly one position, a field after the hash
OneFieldAltered ==
    /\ wire.edit = "field"
    /\ LET written == DataOf(wire.src)
       IN /\ Len(wire.data) = Len(written)
          /\ Cardinality({p \in 1..Len(written) : wire.data[p] # written[p]}) = 1
          /\ \A p \in 1..NLimbs : wire.data[p] = written[p]

UncoveredFieldsPass ==
    [][Called({"deserialize", "create"}) /\ OneFieldAltered
          /\ ContentRead(wire.data).assets = ContentOf(wire.src).assets
          /\ ContentRead(wire.data).entities = ContentOf(wire.src).entities
          => ~last'.thrown]_vars

\* the sequence seq rearranged by the permutation pi of its indices
Permuted(seq, pi) == [i \in 1..Len(seq) |-> seq[pi[i]]]
IndexPermutations(n) == {pi \in [1..n -> 1..n] : \A i, j \in 1..n : pi[i] = pi[j] => i = j}

\* every rearrangement of scene s's assets and entities has s's hash
HashIgnoresOrder(s) ==
    LET es == EntsOf(heap, ents[s])
        h == SceneHash(assets[s], es)
    IN \A pa \in IndexPermutations(Len(assets[s])), pe \in IndexPermutations(Len(es)) :
           SceneHash(Permuted(assets[s], pa), Permuted(es, pe)) = h

\* C7: the hash of a scene does not depend on the order of its assets or
\* of its entities, and a stream whose assets or entities were put in
\* another order still passes the hash check of deserialize.
C7_OrderIndependent ==
    /\ [](\A s \in Scenes : HashIgnoresOrder(s))
    /\ [][Called({"deserialize", "create"}) /\ wire.edit = "order"
              => ~last'.thrown]_vars

\* a stream whose entities changed places was read without an error, the
\* two entities having different hashes whose sum wraps
C7_Witness ==
    /\ last.op = "deserialize"
    /\ ~last.thrown
    /\ wire.edit = "order"
    /\ last.r # wire.src
    /\ Len(ents[last.r]) = 2
    /\ heap[ents[last.r][1]].val # heap[ents[last.r][2]].val
    /\ ContentOf(last.r).entities # ContentOf(wire.src).entities
    /\ ExactHigh(HashesOf(ContentOf(last.r))) > 0

(***************************************************************************)
(* Strings.  A std::string is the sequence of its character codes, so that *)
(* operator< is the lexicographic order the code sorts and searches by.    *)
(***************************************************************************)
Code(c) ==
    CASE c = "/" -> 47
      [] c = "0" -> 48 [] c = "1" -> 49 [] c = "2" -> 50 [] c = "3" -> 51
      [] c = "A" -> 65 [] c = "B" -> 66 [] c = "C" -> 67

Str(cs) == [i \in 1..Len(cs) |-> Code(cs[i])]

Slash == Code("/")

\* std::string operator<
StrLess(x, y) ==
    \E k \in 1..Len(y) :
        /\ \A j \in 1..(k - 1) : j <= Len(x) /\ x[j] = y[j]
        /\ k - 1 <= Len(x)
        /\ (k > Len(x) \/ x[k] < y[k])

\* position of the last '/' of a path, 0 when it has none
LastSlash(p) ==
    IF \E i \in 1..Len(p) : p[i] = Slash
    THEN CHOOSE i \in 1..Len(p) :
             p[i] = Slash /\ \A j \in (i + 1)..Len(p) : p[j] # Slash
    ELSE 0

\* Identifier::getParentPath: the path with its last segment removed
ParentPath(p) == IF LastSlash(p) = 0 THEN <<>> ELSE SubSeq(p, 1, LastSlash(p) - 1)

\* Identifier::getName: the last segment of the path
NameOf(p) == SubSeq(p, LastSlash(p) + 1, Len(p))

(***************************************************************************)
(* Matrices.  float4x4 products do not commute; a matrix is modelled as    *)
(* the word of the generators multiplied, in the order written.            *)
(***************************************************************************)
Identity == <<>>
Mul(x, y) == x \o y

\* Transform::toMatrix: the matrix of the entity's own position, rotation
\* and scale (one generator per entity)
ToMatrix(e) == <<e.id>>

\* an entity with a hierarchy path, as constructed: no parent, identity
\* matrices
Node(i, k, p) ==
    [id |-> i, kind |-> k, ct |-> FALSE, val |-> 1, parent |-> Null,
     path |-> p, local_matrix |-> Identity, global_matrix |-> Identity]

(***************************************************************************)
(* Scene::buildHierarchy                                                   *)
(***************************************************************************)
\* auto sorted = entities; std::sort(... a->path < b->path): std::sort is
\* not stable, so entities of equal path may come out in any order
SortedCopies(h, es) ==
    {[i \in 1..Len(es) |-> es[pi[i]]] :
        pi \in {q \in [1..Len(es) -> 1..Len(es)] :
                   /\ \A i, j \in 1..Len(es) : q[i] = q[j] => i = j
                   /\ \A i, j \in 1..Len(es) :
                          i < j => ~StrLess(h[es[q[j]]].path, h[es[q[i]]].path)}}

\* std::lower_bound(sorted, path, a->path < path)
LowerBound(h, sorted, path) ==
    IF \E i \in 1..Len(sorted) : ~StrLess(h[sorted[i]].path, path)
    THEN CHOOSE i \in 1..Len(sorted) :
             /\ ~StrLess(h[sorted[i]].path, path)
             /\ \A j \in 1..(i - 1) : StrLess(h[sorted[j]].path, path)
    ELSE Len(sorted) + 1

\* the find lambda: it != sorted.end() && (*it)->path == path ? *it : nullptr
Find(h, sorted, path) ==
    LET it == LowerBound(h, sorted, path)
    IN IF it <= Len(sorted) /\ h[sorted[it]].path = path THEN sorted[it] ELSE Null

\* one iteration of the first loop
LinkEntity(h, sorted, e) ==
    [h EXCEPT ![e].parent = Find(h, sorted, ParentPath(h[e].path)),
              ![e].local_matrix = ToMatrix(h[e])]

\* (a composition that multiplies the parent's matrix first)
ParentTimesLocal(local, up) == Mul(up, local)

\* t.local_matrix * CalcGlobalMatrix(*t.parent)
LocalTimesParent(local, up) == Mul(local, up)

\* CalcGlobalMatrix returning through its frames: stack holds the entities
\* of the recursive calls, the entity asked for first and the root last
RECURSIVE Unwind(_, _)
Unwind(h, stack) ==
    IF Len(stack) = 1 THEN h[stack[1]].local_matrix
    ELSE LocalTimesParent(h[stack[1]].local_matrix, Unwind(h, Tail(stack)))

\* indices per worker block (the code hands out blocks of 32)
BlockSize == 1
\* frames the stack has room for
MaxStack == 4

NBlocks(n) == (n + BlockSize - 1) \div BlockSize
BlockBegin(k) == (k - 1) * BlockSize + 1
BlockEnd(k, n) == IF k * BlockSize < n THEN k * BlockSize ELSE n

\* a buildHierarchy call is running and the process is alive
Building == run.phase = "build" /\ last.op # "fault"
RunBlocks == 1..NBlocks(Len(ents[run.s]))
RunEnd(k) == BlockEnd(k, Len(ents[run.s]))

\* lines 252-260: the sorted copy is made, then the first parallel loop is
\* started; link[k] and comp[k] are block k's next index in the first and
\* in the second loop, stack[k] the frames of its CalcGlobalMatrix call,
\* rd and wr the fields the second loop's iterations have read and written
BeginBuild(s, sorted) ==
    /\ CanCall
    /\ run.phase \in {"idle", "done"}
    /\ ~HasNull(ents[s])
    /\ run' = [phase |-> "build", s |-> s, sorted |-> sorted,
               link |-> [k \in 1..NBlocks(Len(ents[s])) |-> BlockBegin(k)],
               comp |-> [k \in 1..NBlocks(Len(ents[s])) |-> BlockBegin(k)],
               stack |-> [k \in 1..NBlocks(Len(ents[s])) |-> <<>>],
               rd |-> {}, wr |-> {}]
    /\ last' = Call("buildHierarchy", s, s, s, 0, 0, FALSE)
    /\ UNCHANGED <<heap, ents, settings, assets, constraints, wire>>

\* one iteration of block k in the first loop
LinkStep(k) ==
    /\ Building
    /\ k \in RunBlocks
    /\ run.link[k] <= RunEnd(k)
    /\ heap' = LinkEntity(heap, run.sorted, ents[run.s][run.link[k]])
    /\ run' = [run EXCEPT !.link[k] = @ + 1]
    /\ UNCHANGED <<ents, settings, assets, constraints, wire, last>>

\* (as if both loops were one parallel region: a block goes on to compose
\* as soon as its own entities are linked)
ComposeMayStartEarly(k) == run.link[k] > RunEnd(k)

\* the second parallel_for_blocked is called when the first has returned,
\* that is when every block of the first loop is through
ComposeMayStart(k) == \A b \in RunBlocks : run.link[b] > RunEnd(b)

\* one step of block k in the second loop: enter CalcGlobalMatrix for the
\* next entity, follow one parent link, or return through the frames and
\* store the global matrix
ComposeStep(k) ==
    /\ Building
    /\ k \in RunBlocks
    /\ ComposeMayStart(k)
    /\ run.comp[k] <= RunEnd(k)
    /\ LET i == run.comp[k]
           e == ents[run.s][i]
           st == run.stack[k]
           t == st[Len(st)]
       IN IF st = <<>>
          THEN /\ run' = [run EXCEPT !.stack[k] = <<e>>]
               /\ UNCHANGED <<heap, last>>
          ELSE IF heap[t].parent = Null
          THEN /\ heap' = [heap EXCEPT ![e].global_matrix = Unwind(heap, st)]
               /\ run' = [run EXCEPT
                     !.stack[k] = <<>>,
                     !.comp[k] = @ + 1,
                     !.rd = @ \cup {<<i, t, "parent">>}
                              \cup {<<i, st[j], "local_matrix">> : j \in 1..Len(st)},
                     !.wr = @ \cup {<<i, e, "global_matrix">>}]
               /\ UNCHANGED last
          ELSE IF Len(st) = MaxStack
          THEN /\ last' = [last EXCEPT !.op = "fault"]
               /\ UNCHANGED <<heap, run>>
          ELSE /\ run' = [run EXCEPT !.stack[k] = Append(st, heap[t].parent),
                                      !.rd = @ \cup {<<i, t, "parent">>}]
               /\ UNCHANGED <<heap, last>>
    /\ UNCHANGED <<ents, settings, assets, constraints, wire>>

\* the second loop has joined: buildHierarchy returns
ReturnBuild ==
    /\ Building
    /\ \A k \in RunBlocks : run.comp[k] > RunEnd(k)
    /\ run' = [run EXCEPT !.phase = "done"]
    /\ UNCHANGED <<heap, ents, settings, assets, constraints, wire, last>>

(***************************************************************************)
(* SpecBuild: one scene whose entities carry paths out of a small pool,    *)
(* and buildHierarchy run on it by its worker blocks.                      *)
(***************************************************************************)
PathPool ==
    {Str(<<>>), Str(<<"/", "A">>), Str(<<"/", "A", "/", "B">>),
     Str(<<"/", "A", "/", "B", "/", "C">>), Str(<<"/", "B">>),
     Str(<<"/", "B", "/", "B">>)}

InitBuild ==
    \E n \in 0..MaxNodes :
    \E ps \in [1..MaxNodes -> PathPool] :
        /\ heap = [a \in Addrs |->
                     IF a <= n THEN Node(a, "Transform", ps[a]) ELSE NoEnt]
        /\ ents = [s \in Scenes |-> IF s = 1 THEN [i \in 1..n |-> i] ELSE <<>>]
        /\ settings = [s \in Scenes |-> DefaultSettings]
        /\ assets = [s \in Scenes |-> <<>>]
        /\ constraints = [s \in Scenes |-> <<>>]
        /\ wire = NoWire
        /\ last = NoCall
        /\ run = NoRun

NextBuild ==
    \/ \E sorted \in SortedCopies(heap, ents[1]) : BeginBuild(1, sorted)
    \/ \E k \in 1..MaxNodes : LinkStep(k)
    \/ \E k \in 1..MaxNodes : ComposeStep(k)
    \/ ReturnBuild

SpecBuild == InitBuild /\ [][NextBuild]_vars

(***************************************************************************)
(* buildHierarchy run by one thread, index after index.                    *)
(***************************************************************************)
RECURSIVE LinkFrom(_, _, _, _)
LinkFrom(h, es, sorted, i) ==
    IF i > Len(es) THEN h
    ELSE LinkFrom(LinkEntity(h, sorted, es[i]), es, sorted, i + 1)

\* the frames CalcGlobalMatrix(e) opens, up to one more than the stack holds
RECURSIVE Frames(_, _, _)
Frames(h, e, room) ==
    IF h[e].parent = Null \/ room = 0 THEN <<e>>
    ELSE <<e>> \o Frames(h, h[e].parent, room - 1)

StackOverflows(h, es) == \E i \in 1..Len(es) : Len(Frames(h, es[i], MaxStack)) > MaxStack

RECURSIVE ComposeFrom(_, _, _)
ComposeFrom(h, es, i) ==
    IF i > Len(es) THEN h
    ELSE ComposeFrom([h EXCEPT ![es[i]].global_matrix =
                                  Unwind(h, Frames(h, es[i], MaxStack))],
                     es, i + 1)

BuildSequential(h, es, sorted) == ComposeFrom(LinkFrom(h, es, sorted, 1), es, 1)

(***************************************************************************)
(* Properties of buildHierarchy (checked under SpecBuild).                 *)
(***************************************************************************)
Built == run.phase = "done"
BuiltEnts == {ents[run.s][i] : i \in 1..Len(ents[run.s])}

\* every iteration of the first loop has run
AllLinked ==
    /\ run.phase \in {"build", "done"}
    /\ \A b \in RunBlocks : run.link[b] > RunEnd(b)

\* the entities met from e by following parent links, at most fuel of them
RECURSIVE Ancestors(_, _)
Ancestors(e, fuel) ==
    IF fuel = 0 \/ heap[e].parent = Null THEN {}
    ELSE {heap[e].parent} \cup Ancestors(heap[e].parent, fuel - 1)

\* e, its parent, its grandparent, ... up to the root
RECURSIVE ChainOf(_, _)
ChainOf(e, fuel) ==
    IF fuel = 0 \/ heap[e].parent = Null THEN <<e>>
    ELSE <<e>> \o ChainOf(heap[e].parent, fuel - 1)

Reversed(seq) == [i \in 1..Len(seq) |-> seq[Len(seq) + 1 - i]]

\* the product of the local matrices of the entities of seq, as written
\* from left to right
RECURSIVE ProductOf(_)
ProductOf(seq) ==
    IF seq = <<>> THEN Identity
    ELSE Mul(heap[Head(seq)].local_matrix, ProductOf(Tail(seq)))

\* e's parent is an entity of the scene whose path is e's parent path, and
\* none when the scene has no such entity
ParentByPath(e) ==
    LET withPath == {x \in BuiltEnts : heap[x].path = ParentPath(heap[e].path)}
    IN IF withPath = {} THEN heap[e].parent = Null
       ELSE heap[e].parent \in withPath

\* C14 as stated: after buildHierarchy every entity's parent is the entity
\* of the scene that has its parent path (none if there is none), and its
\* global matrix is the product of the local matrices of its chain
\* multiplied in root-to-leaf order.
C14_RootToLeaf ==
    Built => \A e \in BuiltEnts :
                 /\ ParentByPath(e)
                 /\ heap[e].global_matrix
                        = ProductOf(Reversed(ChainOf(e, Len(ents[run.s]))))

\* C14 amended: the product is taken leaf first, local(e) x local(parent)
\* x ... x local(root).
C14_LeafToRoot ==
    Built => \A e \in BuiltEnts :
                 /\ ParentByPath(e)
                 /\ heap[e].global_matrix = ProductOf(ChainOf(e, Len(ents[run.s])))

\* buildHierarchy has returned on /A, /A/B, /A/B/C: the leaf's parent is
\* /A/B and its global matrix is a product of three local matrices
C14_Witness ==
    /\ Built
    /\ \E a, b, c \in BuiltEnts :
           /\ heap[a].path = Str(<<"/", "A">>)
           /\ heap[b].path = Str(<<"/", "A", "/", "B">>)
           /\ heap[c].path = Str(<<"/", "A", "/", "B", "/", "C">>)
           /\ heap[c].parent = b
           /\ heap[b].parent = a
           /\ heap[a].parent = Null
           /\ Len(heap[c].global_matrix) = 3

\* C18: no iteration of the second loop starts before every iteration of
\* the first has completed; no iteration of the second loop reads a field
\* that another iteration of the second loop writes; and when the call
\* returns the parent links and matrices are those of a sequential run.
C18_TwoPhaseBarrier ==
    run.phase \in {"build", "done"} =>
        /\ (\E k \in RunBlocks : run.comp[k] > BlockBegin(k) \/ run.stack[k] # <<>>)
               => AllLinked
        /\ \A r \in run.rd, w \in run.wr :
               r[1] # w[1] => <<r[2], r[3]>> # <<w[2], w[3]>>
        /\ Built => heap = BuildSequential(heap, ents[run.s], run.sorted)

\* two blocks are inside CalcGlobalMatrix at once, one of them on a parent
\* and a third entity has its global matrix already
C18_Witness ==
    /\ Building
    /\ \E k1, k2 \in RunBlocks :
           /\ k1 # k2
           /\ Len(run.stack[k1]) >= 2
           /\ Len(run.stack[k2]) >= 1
    /\ run.wr # {}

\* C20: the parent links the first loop sets form no cycle, so every walk
\* of CalcGlobalMatrix reaches a root: no entity is its own ancestor and
\* the recursion never runs out of stack.
C20_Terminates ==
    /\ last.op # "fault"
    /\ AllLinked =>
           \A e \in BuiltEnts : e \notin Ancestors(e, Len(ents[run.s]))

(***************************************************************************)
(* Scene::flatternHierarchy                                                *)
(***************************************************************************)
\* sprintf(buf, "%x", i)
RECURSIVE Hex(_)
Hex(i) ==
    LET digit == IF i % 16 < 10 THEN Code("0") + (i % 16) ELSE 87 + (i % 16)
    IN IF i < 16 THEN <<digit>> ELSE Append(Hex(i \div 16), digit)

\* the std::map result is the set of its (key, entity) pairs
Keys(res) == {kv.key : kv \in res}

\* (a probe that starts at suffix 1)
ProbeFromOne(res, name) ==
    CHOOSE i \in 1..(Cardinality(res) + 1) :
        /\ (name \o Hex(i)) \notin Keys(res)
        /\ \A j \in 1..(i - 1) : (name \o Hex(j)) \in Keys(res)

\* for (int i = 0; ; ++i): the first i whose key name + hex(i) is free
Probe(res, name) ==
    CHOOSE i \in 0..Cardinality(res) :
        /\ (name \o Hex(i)) \notin Keys(res)
        /\ \A j \in 0..(i - 1) : (name \o Hex(j)) \in Keys(res)

\* one iteration of the loop over the entities
FlattenInsert(res, h, e) ==
    IF h[e].kind = "Transform" THEN res
    ELSE LET name == NameOf(h[e].path)
         IN IF name \notin Keys(res)
            THEN res \cup {[key |-> name, e |-> e]}
            ELSE res \cup {[key |-> name \o Hex(Probe(res, name)), e |-> e]}

RECURSIVE FlattenFrom(_, _, _, _)
FlattenFrom(res, h, es, i) ==
    IF i > Len(es) THEN res
    ELSE FlattenFrom(FlattenInsert(res, h, es[i]), h, es, i + 1)

\* the pair of the smallest key: std::map iterates in key order
FirstPair(res) == CHOOSE kv \in res : \A o \in res : ~StrLess(o.key, kv.key)

\* the second loop: paths rewritten, entities pushed back in key order
RECURSIVE Rebuild(_, _)
Rebuild(acc, res) ==
    IF res = {} THEN acc
    ELSE LET kv == FirstPair(res)
         IN Rebuild([h |-> [acc.h EXCEPT ![kv.e].path = <<Slash>> \o kv.key],
                     out |-> Append(acc.out, kv.e)],
                    res \ {kv})

FlatternHierarchy(s) ==
    /\ CanCall
    /\ IF HasNull(ents[s])
       THEN Fault("flatternHierarchy", s, s, s)
       ELSE LET res == FlattenFrom({}, heap, ents[s], 1)
                acc == Rebuild([h |-> heap, out |-> <<>>], res)
                en == [ents EXCEPT ![s] = acc.out]
            IN /\ ents' = en
               /\ heap' = Collect(acc.h, en)
               /\ last' = Call("flatternHierarchy", s, s, s, 0, 0, FALSE)
               /\ UNCHANGED <<settings, assets, constraints, wire, run>>

\* the orders std::sort may leave scene s's copy in (the comparator faults
\* on an empty pointer before any order is reached)
SortChoices(s) ==
    IF HasNull(ents[s]) THEN {ents[s]} ELSE SortedCopies(heap, ents[s])

\* buildHierarchy as one step of the calling thread
BuildHierarchy(s, sorted) ==
    /\ CanCall
    /\ IF HasNull(ents[s])
       THEN Fault("buildHierarchy", s, s, s)
       ELSE IF StackOverflows(LinkFrom(heap, ents[s], sorted, 1), ents[s])
       THEN Fault("buildHierarchy", s, s, s)
       ELSE /\ heap' = BuildSequential(heap, ents[s], sorted)
            /\ last' = Call("buildHierarchy", s, s, s, 0, 0, FALSE)
            /\ UNCHANGED <<ents, settings, assets, constraints, wire, run>>

(***************************************************************************)
(* SpecTree: scene 1 holds entities with paths, scene 2 is a second        *)
(* snapshot of it (the same entities with other data), scene 3 is empty;   *)
(* the hierarchy is built and flattened, scenes are cloned, diffed and     *)
(* interpolated.                                                           *)
(***************************************************************************)
TreePool ==
    {<<"Transform", Str(<<"/", "A">>)>>,
     <<"Mesh", Str(<<"/", "A">>)>>,
     <<"Mesh", Str(<<"/", "A", "/", "A">>)>>,
     <<"Mesh", Str(<<"/", "A", "0">>)>>,
     <<"Mesh", Str(<<"/", "B">>)>>}

InitTree ==
    \E n \in 0..MaxNodes :
    \E ps \in [1..MaxNodes -> TreePool] :
        /\ heap = [a \in Addrs |->
                     IF a <= n THEN Node(a, ps[a][1], ps[a][2])
                     ELSE IF a <= 2 * n
                     THEN [Node(a - n, ps[a - n][1], ps[a - n][2]) EXCEPT !.val = 3]
                     ELSE NoEnt]
        /\ ents = [s \in Scenes |->
                     IF s = 1 THEN [i \in 1..n |-> i]
                     ELSE IF s = 2 THEN [i \in 1..n |-> n + i]
                     ELSE <<>>]
        /\ settings = [s \in Scenes |-> DefaultSettings]
        /\ assets = [s \in Scenes |-> <<>>]
        /\ constraints = [s \in Scenes |-> <<>>]
        /\ wire = NoWire
        /\ last = NoCall
        /\ run = NoRun

NextTree ==
    \/ \E s \in Scenes : \E sorted \in SortChoices(s) : BuildHierarchy(s, sorted)
    \/ \E s \in Scenes : FlatternHierarchy(s)
    \/ \E detach \in BOOLEAN : Clone(1, 3, detach)
    \/ Diff(3, 1, 2)
    \/ \E t \in Fractions : Lerp(3, 1, 2, t)

SpecTree == InitTree /\ [][NextTree]_vars

(***************************************************************************)
(* Properties of the hierarchy operations (checked under SpecTree).        *)
(***************************************************************************)
ElemsOf(seq) == {seq[i] : i \in 1..Len(seq)}

\* the paths of scene s's entities after the step
PathsAfter(s) == {heap'[e].path : e \in ElemsOf(ents'[s])}

\* entity e, named name before the call, now has the path "/" + name, or
\* "/" + name + hex(i) for the lowest i such that "/" + name and every
\* "/" + name + hex(j), j < i, are paths of the scene as well
LowestFreeName(s, e, name) ==
    \/ heap'[e].path = <<Slash>> \o name
    \/ \E i \in 0..Len(ents[s]) :
           /\ heap'[e].path = <<Slash>> \o name \o Hex(i)
           /\ (<<Slash>> \o name) \in PathsAfter(s)
           /\ \A j \in 0..(i - 1) : (<<Slash>> \o name \o Hex(j)) \in PathsAfter(s)

\* C15: after flatternHierarchy the scene holds exactly the non-Transform
\* entities it held before, each once, with pairwise distinct paths of the
\* form "/" + name or "/" + name + lowest free hexadecimal suffix, in
\* ascending order of path.
C15_FlattenUnique ==
    [][Called({"flatternHierarchy"})
          => LET s == last'.r
                 out == ents'[s]
             IN /\ ElemsOf(out) = {e \in ElemsOf(ents[s]) : heap[e].kind # "Transform"}
                /\ \A i, j \in 1..Len(out) : out[i] = out[j] => i = j
                /\ \A i, j \in 1..Len(out) :
                       i < j => StrLess(heap'[out[i]].path, heap'[out[j]].path)
                /\ \A e \in ElemsOf(out) :
                       LowestFreeName(s, e, NameOf(heap[e].path))]_vars

\* a scene of three entities, two of them named A, was flattened to /A,
\* /A0 and /A1
C15_Witness ==
    /\ last.op = "flatternHierarchy"
    /\ Len(ents[last.r]) = 3
    /\ heap[ents[last.r][1]].path = Str(<<"/", "A">>)
    /\ heap[ents[last.r][2]].path = Str(<<"/", "A", "0">>)
    /\ heap[ents[last.r][3]].path = Str(<<"/", "A", "1">>)

\* C17: every entity's parent reference is none or an entity that is an
\* element of the same scene's entity collection.
C17_ParentsInScene ==
    \A s \in Scenes : \A e \in ElemsOf(ents[s]) \ {Null} :
        heap[e].parent = Null \/ heap[e].parent \in ElemsOf(ents[s])

(***************************************************************************)
(* Scene::import.  Converters, mesh refinement and bounds live outside     *)
(* this file: what they do to an entity or an animation channel is kept    *)
(* as the list of the operations applied to it, in order.                  *)
(***************************************************************************)
ZUpCorrectionModes == {"FlipYZ", "RotateX"}

SceneImportSettings(zup, unit, influence) ==
    [zup_correction_mode |-> zup, mesh_split_unit |-> unit,
     mesh_max_bone_influence |-> influence]

\* an operation applied to an entity or channel; arg is the scale of a
\* ScaleConverter as the fraction <<numerator, denominator>>
Applied(op, arg) == [op |-> op, arg |-> arg]

\* an entity as received: nothing applied, refine settings as constructed
Received(i, k) ==
    [id |-> i, kind |-> k, ct |-> FALSE, val |-> 1, parent |-> Null,
     applied |-> <<>>, split |-> 0, split_unit |-> 0, max_bone_influence |-> 0]

\* an animation clip with its channels, each the list of what was applied
AnimationClip(channels) == [type |-> "Animation", val |-> 1, animations |-> channels]

\* (a handedness test that forgets RightZUp)
FlipXRightOnly(st) == st.handedness = "Right"

\* bool flip_x
FlipX(st) == st.handedness = "Right" \/ st.handedness = "RightZUp"

\* bool swap_yz
SwapYZ(st) == st.handedness = "LeftZUp" \/ st.handedness = "RightZUp"

\* lines 175-188: the converters, in the order they are pushed
Converters(st, cv) ==
    (IF st.scale_factor # 1
     THEN <<Applied("ScaleConverter", <<1, st.scale_factor>>)>> ELSE <<>>)
    \o (IF FlipX(st) THEN <<Applied("FlipX_HandednessCorrector", 0)>> ELSE <<>>)
    \o (IF SwapYZ(st)
        THEN IF cv.zup_correction_mode = "FlipYZ"
             THEN <<Applied("FlipYZ_ZUpCorrector", 0)>>
             ELSE IF cv.zup_correction_mode = "RotateX"
             THEN <<Applied("RotateX_ZUpCorrector", 0)>>
             ELSE <<>>
        ELSE <<>>)

\* the convert lambda: every converter of the list, in order
Convert(obj, converters) == obj \o converters

\* the body of the loop over the entities
ImportEntity(e, converters, cv) ==
    LET is_mesh == e.kind = "Mesh"
        refined == IF is_mesh
                   THEN [e EXCEPT !.split = 1,
                                  !.split_unit = cv.mesh_split_unit,
                                  !.max_bone_influence = cv.mesh_max_bone_influence,
                                  !.applied = Append(@, Applied("refine", 0))]
                   ELSE e
        converted == IF converters # <<>>
                     THEN [refined EXCEPT !.applied = Convert(@, converters)]
                     ELSE refined
    IN IF is_mesh
       THEN [converted EXCEPT !.applied = Append(@, Applied("updateBounds", 0))]
       ELSE converted

\* the body of the loop over the assets
ImportAsset(a, converters) ==
    IF a.type = "Animation"
    THEN [a EXCEPT !.animations =
              [c \in 1..Len(a.animations) |-> Convert(a.animations[c], converters)]]
    ELSE a

Import(s, cv) ==
    /\ CanCall
    /\ IF HasNull(ents[s])
       THEN Fault("import", s, s, s)
       ELSE LET converters == Converters(settings[s], cv)
            IN /\ heap' = [a \in Addrs |->
                             IF a \in ElemsOf(ents[s])
                             THEN ImportEntity(heap[a], converters, cv)
                             ELSE heap[a]]
               /\ assets' = [assets EXCEPT ![s] =
                                [i \in 1..Len(assets[s]) |->
                                    ImportAsset(assets[s][i], converters)]]
               /\ settings' = [settings EXCEPT ![s].handedness = "Left",
                                               ![s].scale_factor = 1]
               /\ last' = Call("import", s, s, s, cv, 0, FALSE)
               /\ UNCHANGED <<ents, constraints, wire, run>>

(***************************************************************************)
(* SpecImport: a received scene in the producer's coordinate convention,   *)
(* with up to MaxLen entities, a texture and an animation clip of two      *)
(* channels, is imported.                                                  *)
(***************************************************************************)
ImportModes ==
    {SceneImportSettings(m, u, 4) : m \in ZUpCorrectionModes, u \in {100, 200}}

InitImport ==
    \E n \in 0..MaxLen, hd \in Handedness, sf \in {1, 2} :
    \E ks \in [1..MaxLen -> Kinds] :
        /\ heap = [a \in Addrs |-> IF a <= n THEN Received(a, ks[a]) ELSE NoEnt]
        /\ ents = [s \in Scenes |-> IF s = 1 THEN [i \in 1..n |-> i] ELSE <<>>]
        /\ settings = [s \in Scenes |->
                         IF s = 1 THEN SceneSettings("a", hd, sf)
                         ELSE DefaultSettings]
        /\ assets = [s \in Scenes |->
                       IF s = 1
                       THEN <<Asset("Texture", 1), AnimationClip(<<<<>>, <<>>>>)>>
                       ELSE <<>>]
        /\ constraints = [s \in Scenes |-> <<>>]
        /\ wire = NoWire
        /\ last = NoCall
        /\ run = NoRun

NextImport == \E cv \in ImportModes : Import(1, cv)

SpecImport == InitImport /\ [][NextImport]_vars

(***************************************************************************)
(* Properties of import (checked under SpecImport).                        *)
(***************************************************************************)
\* the operations the step applied to x (x before, y after)
NewlyApplied(x, y) == SubSeq(y, Len(x) + 1, Len(y))

\* the kinds of converter among a list of applied operations, in order
ConverterOps(ops) ==
    LET conv(a) == a.op \notin {"refine", "updateBounds"}
    IN [i \in 1..Len(SelectSeq(ops, conv)) |-> SelectSeq(ops, conv)[i].op]

\* the pipeline the claim describes for settings st and import settings cv
PipelineOf(st, cv) ==
    (IF st.scale_factor # 1 THEN <<"ScaleConverter">> ELSE <<>>)
    \o (IF st.handedness \in {"Right", "RightZUp"}
        THEN <<"FlipX_HandednessCorrector">> ELSE <<>>)
    \o (IF st.handedness \in {"LeftZUp", "RightZUp"}
        THEN <<IF cv.zup_correction_mode = "FlipYZ"
               THEN "FlipYZ_ZUpCorrector" ELSE "RotateX_ZUpCorrector">>
        ELSE <<>>)

\* C19: import applies to every entity and to every channel of every
\* animation asset, exactly once and in this order: a scale converter iff
\* scale_factor # 1, an X flip iff the handedness is Right or RightZUp, and
\* the Z-up corrector zup_correction_mode selects iff the handedness is
\* LeftZUp or RightZUp.
C19_ConverterPipeline ==
    [][Called({"import"})
          => LET s == last'.r
                 pipeline == PipelineOf(settings[s], last'.t)
             IN /\ \A e \in ElemsOf(ents[s]) :
                       /\ SubSeq(heap'[e].applied, 1, Len(heap[e].applied))
                              = heap[e].applied
                       /\ ConverterOps(NewlyApplied(heap[e].applied,
                                                    heap'[e].applied)) = pipeline
                /\ Len(assets'[s]) = Len(assets[s])
                /\ \A i \in 1..Len(assets[s]) :
                       assets[s][i].type = "Animation"
                           => \A c \in 1..Len(assets[s][i].animations) :
                                  LET before == assets[s][i].animations[c]
                                      after == assets'[s][i].animations[c]
                                  IN /\ SubSeq(after, 1, Len(before)) = before
                                     /\ Len(after) = Len(before) + Len(pipeline)
                                     /\ ConverterOps(NewlyApplied(before, after))
                                            = pipeline]_vars

\* a scene of RightZUp handedness and scale 2 holding a mesh was imported:
\* the mesh and the channels went through all three converters
C19_Witness ==
    /\ last.op = "import"
    /\ last.steps = 1
    /\ \E e \in ElemsOf(ents[last.r]) :
           /\ heap[e].kind = "Mesh"
           /\ ConverterOps(heap[e].applied)
                  = <<"ScaleConverter", "FlipX_HandednessCorrector",
                      "RotateX_ZUpCorrector">>
    /\ ConverterOps(assets[last.r][2].animations[1])
           = <<"ScaleConverter", "FlipX_HandednessCorrector", "RotateX_ZUpCorrector">>

\* the step is a second import of the same scene with the same settings
ImportedAgain ==
    /\ Called({"import"})
    /\ last.op = "import"
    /\ last'.r = last.r
    /\ last'.t = last.t

C16_SecondImportConvertsNothing ==
    [][ImportedAgain
           => /\ Converters(settings[last'.r], last'.t) = <<>>
              /\ UNCHANGED <<assets, settings>>
              /\ \A e \in ElemsOf(ents[last'.r]) :
                     /\ ConverterOps(NewlyApplied(heap[e].applied,
                                                  heap'[e].applied)) = <<>>
                     /\ heap[e].kind # "Mesh" => heap'[e] = heap[e]]_vars

====
